---- MODULE Spec2Model ----
(***************************************************************************)
(* A model of the Sudoku SAT solver of src/sudoku.py: the CNF encoder      *)
(* (canonical_to_cnf_literals, max_one, one_digit_this_*,                  *)
(* sudoku_constraints), the DPLL solver (update_formula, sat_solver) as a  *)
(* machine with an explicit call stack and a heap of assignment dicts, the *)
(* decoder (cnf_to_canonical) and the caller (print_solved_sudoku).        *)
(*                                                                         *)
(* Python values are modelled as follows.                                  *)
(*   literal     <<variable, polarity>>                                    *)
(*   clause      a sequence of literals (duplicates and order kept)        *)
(*   formula     a sequence of clauses                                     *)
(*   dict        a sequence of <<key, value>> pairs in insertion order     *)
(*   X | None    a record [isNone |-> BOOLEAN, val |-> X]                  *)
(* The source fixes the grid at 9x9.  The encoder and decoder operators    *)
(* take the side n of the grid as an extra first parameter (n = 9 is the   *)
(* source); the side of a board is the number of its rows.                 *)
(***************************************************************************)
EXTENDS Integers, Sequences, FiniteSets, TLC

VARIABLES
  board,      \* the canonical board given to solve_sudoku (<<>>: none)
  formula0,   \* the formula the outermost sat_solver call was given
  heap,       \* the assignment dicts allocated so far, by object id
  stack,      \* the sat_solver invocations in progress, outermost first
  ret,        \* the value the last finished sat_solver call returned
  outcome,    \* how far the program got / how it ended
  steps,      \* the steps the sat_solver invocations have taken so far
  groups,     \* codec: the exactly-one groups built for the chosen cell
  literals,   \* codec: what canonical_to_cnf_literals yielded
  decoded     \* codec / caller: what cnf_to_canonical returned

vars == <<board, formula0, heap, stack, ret, outcome, steps, groups, literals, decoded>>

----------------------------------------------------------------------------
(* Python lists.                                                           *)

\* the sequence s as an explicit tuple
Explicit(s) == s \o <<>>

\* list.extend over a list of lists, in order
RECURSIVE Flatten(_)
Flatten(ss) == IF ss = <<>> THEN <<>> ELSE Head(ss) \o Flatten(Tail(ss))

\* x in list
Contains(list, x) == \E i \in 1..Len(list) : list[i] = x

----------------------------------------------------------------------------
(* Python's T | None and dict.                                             *)

None == [isNone |-> TRUE, val |-> <<>>]
Some(x) == [isNone |-> FALSE, val |-> x]

DictHas(d, k) == \E i \in 1..Len(d) : d[i][1] = k
DictGet(d, k) == d[CHOOSE i \in 1..Len(d) : d[i][1] = k][2]
\* d[k] = v: an existing key keeps its place
DictSet(d, k, v) ==
  IF DictHas(d, k)
  THEN [i \in 1..Len(d) |-> IF d[i][1] = k THEN <<k, v>> ELSE d[i]] \o <<>>
  ELSE Append(d, <<k, v>>)

----------------------------------------------------------------------------
(* The encoder.                                                            *)

\* the side of the 3x3 (in general b x b) boxes of an n x n grid
BoxSide(n) == CHOOSE b \in 1..n : b * b = n

\* a variant with row and column exchanged
cell_literal_transposed(r, c, cell) == <<(c + 1) * 100 + (r + 1) * 10 + cell, TRUE>>

\* the literal yielded for the filled cell at 0-based (r, c)
cell_literal(r, c, cell) == <<(r + 1) * 100 + (c + 1) * 10 + cell, TRUE>>

canonical_to_cnf_literals(canonical) ==
  LET n == Len(canonical)
      cells == Explicit([k \in 1..(n * n) |-> <<((k - 1) \div n), ((k - 1) % n)>>])
      filled == SelectSeq(cells, LAMBDA p : canonical[p[1] + 1][p[2] + 1] # 0)
  IN Explicit([k \in 1..Len(filled) |->
       LET r == filled[k][1]
           c == filled[k][2]
       IN cell_literal(r, c, canonical[r + 1][c + 1])])

\* the index pairs (i, j), i < j, in the order of the nested loops
IndexPairs(m) ==
  SelectSeq(Explicit([k \in 1..(m * m) |-> <<((k - 1) \div m) + 1, ((k - 1) % m) + 1>>]),
            LAMBDA p : p[1] < p[2])

\* a variant that negates only the first variable of each pair
max_one_second_positive(variables) ==
  LET ps == IndexPairs(Len(variables))
  IN Explicit([k \in 1..Len(ps) |->
       << <<variables[ps[k][1]], FALSE>>, <<variables[ps[k][2]], TRUE>> >>])

\* a variant whose inner loop stops one short of the end of the list
max_one_skip_last(variables) ==
  LET ps == SelectSeq(IndexPairs(Len(variables)), LAMBDA p : p[2] < Len(variables))
  IN Explicit([k \in 1..Len(ps) |->
       << <<variables[ps[k][1]], FALSE>>, <<variables[ps[k][2]], FALSE>> >>])

max_one(variables) ==
  LET ps == IndexPairs(Len(variables))
  IN Explicit([k \in 1..Len(ps) |->
       << <<variables[ps[k][1]], FALSE>>, <<variables[ps[k][2]], FALSE>> >>])

at_least_one(variables) == Explicit([k \in 1..Len(variables) |-> <<variables[k], TRUE>>])

one_digit_this_row(n, digit, row) ==
  LET variables == Explicit([col \in 1..n |-> row * 100 + col * 10 + digit])
  IN Append(max_one(variables), at_least_one(variables))

one_digit_this_column(n, digit, column) ==
  LET variables == Explicit([row \in 1..n |-> row * 100 + column * 10 + digit])
  IN Append(max_one(variables), at_least_one(variables))

\* the table of the source, for the 9x9 grid
SQUARES9 ==
  [sq \in (1..3) \X (1..3) |->
     CASE sq = <<1, 1>> -> <<110, 120, 130, 210, 220, 230, 310, 320, 330>>
       [] sq = <<1, 2>> -> <<140, 150, 160, 240, 250, 260, 340, 350, 360>>
       [] sq = <<1, 3>> -> <<170, 180, 190, 270, 280, 290, 370, 380, 390>>
       [] sq = <<2, 1>> -> <<410, 420, 430, 510, 520, 530, 610, 620, 630>>
       [] sq = <<2, 2>> -> <<440, 450, 460, 540, 550, 560, 640, 650, 660>>
       [] sq = <<2, 3>> -> <<470, 480, 490, 570, 580, 590, 670, 680, 690>>
       [] sq = <<3, 1>> -> <<710, 720, 730, 810, 820, 830, 910, 920, 930>>
       [] sq = <<3, 2>> -> <<740, 750, 760, 840, 850, 860, 940, 950, 960>>
       [] sq = <<3, 3>> -> <<770, 780, 790, 870, 880, 890, 970, 980, 990>>]

\* the same table for any side: the cells of box (square[1], square[2]), row by row
SQUARES(n, square) ==
  IF n = 9 THEN SQUARES9[square]
  ELSE LET b == BoxSide(n)
       IN Explicit([k \in 1..n |->
            (b * (square[1] - 1) + ((k - 1) \div b) + 1) * 100
            + (b * (square[2] - 1) + ((k - 1) % b) + 1) * 10])

one_digit_this_square(n, digit, square) ==
  LET sq == SQUARES(n, square)
      variables == Explicit([k \in 1..Len(sq) |-> sq[k] + digit])
  IN Append(max_one(variables), at_least_one(variables))

digit_constraints(n, digit) ==
  LET b == BoxSide(n)
      rows_check == Flatten(Explicit([row \in 1..n |-> one_digit_this_row(n, digit, row)]))
      columns_check ==
        Flatten(Explicit([column \in 1..n |-> one_digit_this_column(n, digit, column)]))
      squares_check ==
        Flatten(Explicit([k \in 1..n |->
          one_digit_this_square(n, digit, <<((k - 1) \div b) + 1, ((k - 1) % b) + 1>>)]))
  IN rows_check \o columns_check \o squares_check

\* "each cell has one digit": the group of one cell
cell_constraints(n, row, col) ==
  LET variables == Explicit([digit \in 1..n |-> row * 100 + col * 10 + digit])
  IN Append(max_one(variables), at_least_one(variables))

sudoku_constraints(n) ==
  Flatten(Explicit([digit \in 1..n |-> digit_constraints(n, digit)]))
  \o Flatten(Explicit([k \in 1..(n * n) |->
       cell_constraints(n, ((k - 1) \div n) + 1, ((k - 1) % n) + 1)]))

\* the formula solve_sudoku hands to sat_solver
sudoku_formula(canonical) ==
  LET given == canonical_to_cnf_literals(canonical)
  IN sudoku_constraints(Len(canonical)) \o Explicit([k \in 1..Len(given) |-> <<given[k]>>])

----------------------------------------------------------------------------
(* The decoder.                                                            *)

RECURSIVE cnf_items(_, _, _)
\* the loop over cnf.items(), item i onwards, writing into board b
cnf_items(cnf, i, b) ==
  IF i > Len(cnf) THEN b
  ELSE LET variable == cnf[i][1]
           val == cnf[i][2]
           value == variable % 10
           column == ((variable \div 10) % 10) - 1
           row == (variable \div 100) - 1
       IN IF val
          THEN cnf_items(cnf, i + 1, [b EXCEPT ![row + 1][column + 1] = value])
          ELSE cnf_items(cnf, i + 1, b)

\* a variant that writes board[column][row]
cnf_to_canonical_swapped(n, cnf) ==
  LET t == cnf_items(cnf, 1, Explicit([r \in 1..n |-> Explicit([c \in 1..n |-> 0])]))
  IN Explicit([r \in 1..n |-> Explicit([c \in 1..n |-> t[c][r]])])

cnf_to_canonical(n, cnf) ==
  cnf_items(cnf, 1, Explicit([r \in 1..n |-> Explicit([c \in 1..n |-> 0])]))

----------------------------------------------------------------------------
(* update_formula.                                                         *)

Negate(literal) == <<literal[1], ~literal[2]>>

\* One pass of the loop body over one clause.  "clause" is the caller's
\* clause object after the pass (the removals act on the copy, so it is
\* untouched), "skip" whether the clause holds the literal, "clause_copy"
\* the copy after the removals.  First a variant without the removals.
visit_clause_keeps_negated(clause, literal) ==
  [clause |-> clause, skip |-> Contains(clause, literal), clause_copy |-> clause]

visit_clause(clause, literal) ==
  [clause |-> clause,
   skip |-> Contains(clause, literal),
   clause_copy |-> SelectSeq(clause, LAMBDA l : l # Negate(literal))]

\* a variant that drops the clauses holding the negated literal as well
update_formula_drops_negated(old_formula, literal) ==
  LET kept == SelectSeq(old_formula, LAMBDA c :
                ~Contains(c, literal) /\ ~Contains(c, Negate(literal)))
  IN [isNone |-> FALSE, val |-> kept, old_formula |-> old_formula]

\* "val" is the returned formula (isNone: None was returned), "old_formula"
\* the caller's list after the call.
update_formula(old_formula, literal) ==
  LET visits == Explicit([k \in 1..Len(old_formula) |-> visit_clause(old_formula[k], literal)])
      empties == {k \in 1..Len(visits) : ~visits[k].skip /\ visits[k].clause_copy = <<>>}
      \* the loop stops at the first clause left empty
      last == IF empties = {} THEN Len(visits)
              ELSE CHOOSE k \in empties : \A j \in empties : k <= j
      kept == SelectSeq(visits, LAMBDA v : ~v.skip)
  IN [isNone |-> empties # {},
      val |-> IF empties # {} THEN <<>>
              ELSE Explicit([k \in 1..Len(kept) |-> kept[k].clause_copy]),
      old_formula |-> Explicit([k \in 1..Len(old_formula) |->
                        IF k <= last THEN visits[k].clause ELSE old_formula[k]])]

----------------------------------------------------------------------------
(* sat_solver as a machine.  A frame is one invocation:                    *)
(*   pc            "scan"   at the head of the while loop (line 229)       *)
(*                 "units"  inside the for loop over unit_clauses          *)
(*                 "decide" after the loop (line 242)                      *)
(*                 "first"  in the first recursive call (line 257)         *)
(*                 "second" in the second recursive call (line 264)        *)
(*   formula       the local formula (None when the caller passed None)    *)
(*   assignment    the object id of the local assignment dict              *)
(*   unit_clauses  the units of the current round not yet visited          *)
(*   lit           the branch literal, once chosen                         *)
(*   entry         the formula and the assignment's content at the call    *)
(*   post          the formula and the assignment's content after          *)
(*                 propagation, when the branch literal was chosen         *)
(* entry and post only record; no step reads them.                         *)

NoLit == <<0, FALSE>>
NoSnap == [formula |-> None, assignment |-> <<>>]

Frame(formula, assignment, content) ==
  [pc |-> "scan", formula |-> formula, assignment |-> assignment,
   unit_clauses |-> <<>>, lit |-> NoLit,
   entry |-> [formula |-> formula, assignment |-> content], post |-> NoSnap]

Top == stack[Len(stack)]
Pop == SubSeq(stack, 1, Len(stack) - 1)
SetTop(f) == [stack EXCEPT ![Len(stack)] = f]

\* a return statement of the top invocation
Return(value) ==
  /\ stack' = Pop
  /\ ret' = value
  /\ outcome' = IF Len(stack) = 1 THEN "returned" ELSE outcome

\* a variant without the copy: new_assignment = assignment
alias_assignment(h, a, var, val) ==
  [heap |-> [h EXCEPT ![a] = DictSet(h[a], var, val)], id |-> a]

\* new_assignment = dict(assignment); new_assignment[var] = val
copy_assignment(h, a, var, val) ==
  [heap |-> Append(h, DictSet(h[a], var, val)), id |-> Len(h) + 1]

\* unit_clauses = [c[0] for c in formula if len(c) == 1]
unit_clauses_of(formula) ==
  LET us == SelectSeq(formula, LAMBDA c : Len(c) = 1)
  IN Explicit([k \in 1..Len(us) |-> us[k][1]])

\* lines 248-251: the first literal of the first non-empty clause
branch_literal(formula) ==
  LET k == CHOOSE i \in 1..Len(formula) :
             Len(formula[i]) > 0 /\ \A j \in 1..(i - 1) : Len(formula[j]) = 0
  IN formula[k][1]

\* lines 229-231: the head of the while loop.  Iterating over None raises
\* TypeError, which no caller catches.
Scan ==
  /\ stack # <<>>
  /\ Top.pc = "scan"
  /\ IF Top.formula.isNone
     THEN /\ stack' = <<>>
          /\ outcome' = "TypeError"
     ELSE LET unit_clauses == unit_clauses_of(Top.formula.val)
          IN /\ stack' = SetTop([Top EXCEPT
                           !.pc = IF unit_clauses = <<>> THEN "decide" ELSE "units",
                           !.unit_clauses = unit_clauses])
             /\ outcome' = outcome
  /\ steps' = steps + 1
  /\ UNCHANGED <<board, formula0, heap, ret, groups, literals, decoded>>

\* lines 232-240: one iteration of the for loop
UnitStep ==
  /\ stack # <<>>
  /\ Top.pc = "units"
  /\ LET unit == Head(Top.unit_clauses)
         var == unit[1]
         val == unit[2]
         assignment == heap[Top.assignment]
         rest == Tail(Top.unit_clauses)
         updated == update_formula(Top.formula.val, unit)
     IN IF DictHas(assignment, var) /\ DictGet(assignment, var) # val
        THEN /\ Return(None)
             /\ heap' = heap
        ELSE /\ heap' = [heap EXCEPT ![Top.assignment] = DictSet(assignment, var, val)]
             /\ IF updated.isNone
                THEN Return(None)
                ELSE /\ stack' = SetTop([Top EXCEPT
                                  !.pc = IF rest = <<>> THEN "scan" ELSE "units",
                                  !.formula = Some(updated.val),
                                  !.unit_clauses = rest])
                     /\ UNCHANGED <<ret, outcome>>
  /\ steps' = steps + 1
  /\ UNCHANGED <<board, formula0, groups, literals, decoded>>

\* the call sat_solver(new_formula, new_assignment) of lines 254-257
\* (negated = FALSE) and of lines 261-264 (negated = TRUE)
Branch(frame, negated) ==
  LET var == frame.lit[1]
      val == IF negated THEN ~frame.lit[2] ELSE frame.lit[2]
      new_assignment == copy_assignment(heap, frame.assignment, var, val)
      new_formula == update_formula(frame.formula.val, <<var, val>>)
      callee == Frame(IF new_formula.isNone THEN None ELSE Some(new_formula.val),
                      new_assignment.id, new_assignment.heap[new_assignment.id])
  IN /\ heap' = new_assignment.heap
     /\ stack' = Append(SetTop([frame EXCEPT
                          !.pc = IF negated THEN "second" ELSE "first",
                          !.formula = Some(new_formula.old_formula)]),
                        callee)
     /\ UNCHANGED <<ret, outcome>>

\* lines 242-257: after propagation
Decide ==
  /\ stack # <<>>
  /\ Top.pc = "decide"
  /\ LET formula == Top.formula.val
     IN IF formula = <<>>
        THEN Return(Some(Top.assignment)) /\ heap' = heap
        ELSE IF \E i \in 1..Len(formula) : Len(formula[i]) = 0
        THEN Return(None) /\ heap' = heap
        ELSE Branch([Top EXCEPT
                       !.lit = branch_literal(formula),
                       !.post = [formula |-> Top.formula,
                                 assignment |-> heap[Top.assignment]]],
                    FALSE)
  /\ steps' = steps + 1
  /\ UNCHANGED <<board, formula0, groups, literals, decoded>>

\* a variant that tries the negated literal whatever the first call returned
ResumeAlwaysSecond ==
  /\ stack # <<>>
  /\ Top.pc \in {"first", "second"}
  /\ IF Top.pc = "first"
     THEN Branch(Top, TRUE)
     ELSE Return(ret) /\ heap' = heap
  /\ steps' = steps + 1
  /\ UNCHANGED <<board, formula0, groups, literals, decoded>>

\* lines 258-267: a recursive call has returned
Resume ==
  /\ stack # <<>>
  /\ Top.pc \in {"first", "second"}
  /\ IF ~ret.isNone
     THEN Return(ret) /\ heap' = heap
     ELSE IF Top.pc = "first"
     THEN Branch(Top, TRUE)
     ELSE Return(None) /\ heap' = heap
  /\ steps' = steps + 1
  /\ UNCHANGED <<board, formula0, groups, literals, decoded>>

----------------------------------------------------------------------------
(* The solver on its own: sat_solver(formula) for every small formula.     *)

\* the formulas of at most MaxClauses clauses, each of at most two
\* literals (repeated ones included) over two variables
MaxClauses == 3

Vars == {1, 2}
Literals == Vars \X BOOLEAN
SeqsUpTo(S, m) == UNION {[1..k -> S] : k \in 0..m}
Clauses == SeqsUpTo(Literals, Cardinality(Vars))
Formulas == SeqsUpTo(Clauses, MaxClauses)

\* sat_solver(formula): lines 225-226 give the call a fresh, empty dict
Init ==
  /\ board = <<>>
  /\ formula0 \in Formulas
  /\ heap = << <<>> >>
  /\ stack = <<Frame(Some(formula0), 1, <<>>)>>
  /\ ret = None
  /\ outcome = "running"
  /\ steps = 0
  /\ groups = <<>>
  /\ literals = <<>>
  /\ decoded = <<>>

Next == Scan \/ UnitStep \/ Decide \/ Resume

Spec == Init /\ [][Next]_vars

----------------------------------------------------------------------------
(* The program: print_solved_sudoku(board) for a choice of boards.         *)

Grid4 == << <<1, 2, 3, 4>>, <<3, 4, 1, 2>>, <<2, 1, 4, 3>>, <<4, 3, 2, 1>> >>

Blank(n) == Explicit([r \in 1..n |-> Explicit([c \in 1..n |-> 0])])

\* the cells of grid before the k-th (row by row) kept, the others blank
Prefix(grid, k) ==
  Explicit([r \in 1..Len(grid) |-> Explicit([c \in 1..Len(grid) |->
    IF (r - 1) * Len(grid) + c <= k THEN grid[r][c] ELSE 0])])

\* grid with one cell blanked
Without(grid, r0, c0) == [grid EXCEPT ![r0][c0] = 0]

\* the boards with cell p holding a and cell q holding b (0: blank)
TwoCells(n, p, q, a, b) == [Blank(n) EXCEPT ![p[1]][p[2]] = a, ![q[1]][q[2]] = b]

\* the pairs of cells filled together: same row and box, same column and
\* box, same row only, same column only, same box only, unrelated
CellPairs4 ==
  { << <<1, 1>>, <<1, 2>> >>, << <<3, 3>>, <<4, 3>> >>, << <<1, 1>>, <<1, 4>> >>,
    << <<1, 2>>, <<4, 2>> >>, << <<3, 1>>, <<4, 2>> >>, << <<2, 1>>, <<3, 4>> >> }

Boards4 ==
  {Prefix(Grid4, k) : k \in 0..16}
  \cup {Without(Grid4, r, c) : r \in 1..4, c \in 1..4}
  \cup {TwoCells(4, pq[1], pq[2], a, b) : pq \in CellPairs4, a \in 0..4, b \in 1..4}
  \cup { << <<1, 2, 0, 0>>, <<0, 0, 3, 4>>, <<0, 0, 0, 0>>, <<0, 0, 0, 0>> >>,
         << <<1, 0, 0, 0>>, <<0, 0, 1, 0>>, <<0, 1, 0, 0>>, <<0, 0, 0, 2>> >> }

\* 9x9 boards that repeat a digit in a row, a column or a box
Boards9 ==
  { TwoCells(9, <<1, 1>>, <<1, 2>>, 5, 5),
    TwoCells(9, <<2, 3>>, <<2, 8>>, 9, 9),
    TwoCells(9, <<1, 4>>, <<7, 4>>, 1, 1),
    TwoCells(9, <<4, 4>>, <<5, 6>>, 3, 3),
    [TwoCells(9, <<5, 5>>, <<6, 4>>, 2, 2) EXCEPT ![1][1] = 2, ![9][8] = 7] }

Boards == Boards4 \cup Boards9

InitSudoku ==
  /\ board \in Boards
  /\ formula0 = <<>>
  /\ heap = <<>>
  /\ stack = <<>>
  /\ ret = None
  /\ outcome = "start"
  /\ steps = 0
  /\ groups = <<>>
  /\ literals = <<>>
  /\ decoded = <<>>

\* solve_sudoku up to its call of sat_solver (lines 280-283)
SolveSudoku ==
  /\ outcome = "start"
  /\ formula0' = sudoku_formula(board)
  /\ heap' = << <<>> >>
  /\ stack' = <<Frame(Some(formula0'), 1, <<>>)>>
  /\ outcome' = "running"
  /\ UNCHANGED <<board, ret, steps, groups, literals, decoded>>

\* dump_board(cnf_to_canonical(solve_sudoku(canonical))), line 337:
\* cnf.items() on None raises AttributeError
PrintSolved ==
  /\ outcome = "returned"
  /\ IF ret.isNone
     THEN /\ outcome' = "AttributeError"
          /\ decoded' = decoded
     ELSE /\ outcome' = "printed"
          /\ decoded' = cnf_to_canonical(Len(board), heap[ret.val])
  /\ UNCHANGED <<board, formula0, heap, stack, ret, steps, groups, literals>>

NextSudoku == SolveSudoku \/ Scan \/ UnitStep \/ Decide \/ Resume \/ PrintSolved

SpecSudoku == InitSudoku /\ [][NextSudoku]_vars

----------------------------------------------------------------------------
(* The encoder and the decoder on their own, on the 9x9 grid: for every    *)
(* cell and digit, the literal of the board holding just that digit, the   *)
(* board decoded from it, and the exactly-one groups the cell and digit    *)
(* belong to.                                                              *)

Constraints9 == sudoku_constraints(9)

InitCodec ==
  /\ board \in {TwoCells(9, <<r, c>>, <<r, c>>, d, d) : r \in 1..9, c \in 1..9, d \in 1..9}
  /\ formula0 = <<>>
  /\ heap = <<>>
  /\ stack = <<>>
  /\ ret = None
  /\ outcome = "encode"
  /\ steps = 0
  /\ groups = <<>>
  /\ literals = <<>>
  /\ decoded = <<>>

Encode ==
  /\ outcome = "encode"
  /\ literals' = canonical_to_cnf_literals(board)
  /\ outcome' = "decode"
  /\ UNCHANGED <<board, formula0, heap, stack, ret, steps, groups, decoded>>

\* cnf_to_canonical({v: True}) for the variable v just encoded
Decode ==
  /\ outcome = "decode"
  /\ decoded' = cnf_to_canonical(9, <<literals[1]>>)
  /\ outcome' = "groups"
  /\ UNCHANGED <<board, formula0, heap, stack, ret, steps, groups, literals>>

\* the groups of the digit in its row, its column and its box, and the
\* group of the cell as it stands in sudoku_constraints()
BuildGroups ==
  /\ outcome = "groups"
  /\ LET v == literals[1][1]
         r == v \div 100
         c == (v \div 10) % 10
         d == v % 10
         at == (9 * 27 + (r - 1) * 9 + (c - 1)) * 37
     IN groups' = << one_digit_this_row(9, d, r),
                     one_digit_this_column(9, d, c),
                     one_digit_this_square(9, d, <<((r - 1) \div 3) + 1, ((c - 1) \div 3) + 1>>),
                     SubSeq(Constraints9, at + 1, at + 37) >>
  /\ outcome' = "done"
  /\ UNCHANGED <<board, formula0, heap, stack, ret, steps, literals, decoded>>

NextCodec == Encode \/ Decode \/ BuildGroups

SpecCodec == InitCodec /\ [][NextCodec]_vars

----------------------------------------------------------------------------
(* Properties of the solver (Spec).                                        *)

\* the variables that occur in the formula
VarsOf(formula) ==
  UNION {{formula[i][j][1] : j \in 1..Len(formula[i])} : i \in 1..Len(formula)}

Keys(d) == {d[i][1] : i \in 1..Len(d)}

\* the clause holds a literal (v, p) with d[v] == p
SatisfiedBy(clause, d) ==
  \E j \in 1..Len(clause) :
    DictHas(d, clause[j][1]) /\ DictGet(d, clause[j][1]) = clause[j][2]

\* the clause without the literals d makes false
ReducedBy(clause, d) ==
  SelectSeq(clause, LAMBDA l : ~(DictHas(d, l[1]) /\ DictGet(d, l[1]) # l[2]))

Satisfiable(formula) ==
  \E a \in [VarsOf(formula) -> BOOLEAN] :
    \A i \in 1..Len(formula) :
      \E j \in 1..Len(formula[i]) : a[formula[i][j][1]] = formula[i][j][2]

Finished == outcome # "running"

\* C2: sat_solver(formula) ends with a result, never with an exception: an
\* assignment when the formula is satisfiable, None when it is not.
C2_ResultIffSatisfiable ==
  Finished =>
    /\ outcome = "returned"
    /\ ret.isNone <=> ~Satisfiable(formula0)

\* C3: a returned assignment satisfies every clause of the input formula,
\* and in every invocation each input clause that the invocation's
\* assignment does not satisfy is still in its working formula (without
\* the literals the assignment makes false): a clause is dropped only once
\* a literal of it is recorded in the assignment.
C3_ReturnedAssignmentSatisfies ==
  /\ (outcome = "returned" /\ ~ret.isNone) =>
       \A i \in 1..Len(formula0) : SatisfiedBy(formula0[i], heap[ret.val])
  /\ \A k \in 1..Len(stack) :
       ~stack[k].formula.isNone =>
         \A i \in 1..Len(formula0) :
           \/ SatisfiedBy(formula0[i], heap[stack[k].assignment])
           \/ Contains(stack[k].formula.val,
                       ReducedBy(formula0[i], heap[stack[k].assignment]))

\* an assignment came back from a run that branched and propagated
C3_Witness ==
  /\ outcome = "returned"
  /\ ~ret.isNone
  /\ Len(formula0) = MaxClauses
  /\ Len(heap) > 2
  /\ Len(heap[ret.val]) = Cardinality(Vars)

\* C8: the invocation that branches calls sat_solver with the first
\* literal (var, val) of the first remaining clause assigned; it calls with
\* (var, not val) only from the first call having returned None; a result
\* of the first call is returned as it is, without a second call; the
\* second call's result, None included, is returned as it is.
C8_BranchOrder ==
  [][stack # <<>> =>
       /\ (Top.pc = "decide" /\ Len(stack') > Len(stack)) =>
            LET lit == Top.formula.val[1][1]
                caller == stack'[Len(stack)]
                callee == stack'[Len(stack')]
            IN /\ caller.pc = "first"
               /\ caller.lit = lit
               /\ DictGet(heap'[callee.assignment], lit[1]) = lit[2]
       /\ Top.pc = "first" =>
            IF ret.isNone
            THEN /\ Len(stack') = Len(stack) + 1
                 /\ stack'[Len(stack)].pc = "second"
                 /\ DictGet(heap'[stack'[Len(stack')].assignment], Top.lit[1]) = ~Top.lit[2]
            ELSE stack' = Pop /\ ret' = ret
       /\ Top.pc = "second" => (stack' = Pop /\ ret' = ret)
       /\ (Len(stack') >= Len(stack) /\ stack'[Len(stack)].pc = "second") =>
            (Top.pc = "first" /\ ret.isNone)
  ]_vars

\* the first call has failed and the second has been made
C8_Witness ==
  /\ Len(stack) = 2
  /\ stack[1].pc = "second"
  /\ ret.isNone
  /\ steps > 4

\* C9: while an invocation is in its first or second recursive call, its
\* own formula and assignment are as they were after propagation, and the
\* call started from exactly that formula simplified by, and that
\* assignment extended by, the branch literal (negated for the second).
C9_BranchesShareNothing ==
  \A k \in 1..Len(stack) :
    stack[k].pc \in {"first", "second"} =>
      LET post == stack[k].post
          lit == IF stack[k].pc = "second" THEN Negate(stack[k].lit) ELSE stack[k].lit
          new_formula == update_formula(post.formula.val, lit)
      IN /\ stack[k].formula = post.formula
         /\ heap[stack[k].assignment] = post.assignment
         /\ new_formula.old_formula = post.formula.val
         /\ k < Len(stack) =>
              /\ stack[k + 1].entry.assignment = DictSet(post.assignment, lit[1], lit[2])
              /\ stack[k + 1].entry.formula =
                   IF new_formula.isNone THEN None ELSE Some(new_formula.val)

\* the second call runs after a first call that recorded a propagated
\* variable of its own before it failed
C9_Witness ==
  \E k \in 1..Len(stack) :
    /\ stack[k].pc = "second"
    /\ k < Len(stack)
    /\ \E a \in 1..Len(heap) : Len(heap[a]) > Len(stack[k].post.assignment) + 1

\* the steps an invocation tree over v variables and c clauses can take:
\* at most 2^(v+1) invocations, each with at most v + 1 scans, v rounds of
\* c units, one decision and two resumptions
StepBound(formula) ==
  LET v == Cardinality(VarsOf(formula))
      c == Len(formula)
  IN (2 ^ (v + 1)) * ((v + 1) + v * c + 3)

\* C10: sat_solver ends: it never takes more than StepBound steps and an
\* unfinished run always has a next step (an invocation on the stack at a
\* place where Scan, UnitStep, Decide or Resume is enabled).  No variable recorded in an
\* invocation's assignment occurs in its formula, a recursive call works
\* on strictly fewer variables than its caller, and the recursion is never
\* deeper than the number of variables of the input formula.
C10_TerminatesWithinBound ==
  /\ steps <= StepBound(formula0)
  /\ ~Finished =>
       /\ stack # <<>>
       /\ Top.pc \in {"scan", "units", "decide", "first", "second"}
       /\ Top.pc = "units" => Top.unit_clauses # <<>>
       /\ Top.pc \in {"units", "decide", "first", "second"} => ~Top.formula.isNone
  /\ Len(stack) - 1 <= Cardinality(VarsOf(formula0))
  /\ \A k \in 1..Len(stack) :
       ~stack[k].formula.isNone =>
         /\ VarsOf(stack[k].formula.val) \cap Keys(heap[stack[k].assignment]) = {}
         /\ k > 1 =>
              /\ VarsOf(stack[k].formula.val) \subseteq VarsOf(stack[k - 1].formula.val)
              /\ VarsOf(stack[k].formula.val) # VarsOf(stack[k - 1].formula.val)

\* the recursion is as deep as the input formula has variables
C10_Witness ==
  /\ Len(stack) - 1 = Cardinality(VarsOf(formula0))
  /\ Len(stack) = Cardinality(Vars) + 1
  /\ Top.pc = "decide"

----------------------------------------------------------------------------
(* Properties of the program (SpecSudoku).                                 *)

Cells(n) == (1..n) \X (1..n)

SameBox(n, p, q) ==
  /\ (p[1] - 1) \div BoxSide(n) = (q[1] - 1) \div BoxSide(n)
  /\ (p[2] - 1) \div BoxSide(n) = (q[2] - 1) \div BoxSide(n)

\* two cells of a row, a column or a box
Related(n, p, q) == p # q /\ (p[1] = q[1] \/ p[2] = q[2] \/ SameBox(n, p, q))

\* two filled cells of a row, a column or a box hold the same digit
HasDuplicate(b) ==
  \E p, q \in Cells(Len(b)) :
    /\ Related(Len(b), p, q)
    /\ b[p[1]][p[2]] # 0
    /\ b[p[1]][p[2]] = b[q[1]][q[2]]

\* completely filled with 1..n, no digit twice in a row, a column or a box
ValidGrid(g) ==
  /\ \A p \in Cells(Len(g)) : g[p[1]][p[2]] \in 1..Len(g)
  /\ ~HasDuplicate(g)

\* g has the value of every filled cell of b
Keeps(b, g) == \A p \in Cells(Len(b)) : b[p[1]][p[2]] # 0 => g[p[1]][p[2]] = b[p[1]][p[2]]

Perms4 == {p \in [1..4 -> 1..4] : \A i, j \in 1..4 : p[i] = p[j] => i = j}

\* the ways to fill a row of a 4x4 board
RowsFor(row) == {p \in Perms4 : \A i \in 1..4 : row[i] # 0 => p[i] = row[i]}

\* the 4x4 board has a valid completion (built row by row)
HasCompletion4(b) ==
  /\ Len(b) = 4
  /\ \E r1 \in RowsFor(b[1]) : \E r2 \in RowsFor(b[2]) :
       /\ ~HasDuplicate(<<r1, r2, b[3], b[4]>>)
       /\ \E r3 \in RowsFor(b[3]) :
            /\ ~HasDuplicate(<<r1, r2, r3, b[4]>>)
            /\ \E r4 \in RowsFor(b[4]) : ValidGrid(<<r1, r2, r3, r4>>)

Ended == outcome \in {"returned", "printed", "TypeError", "AttributeError"}

C4_DuplicateBoardFails ==
  (Ended /\ HasDuplicate(board)) =>
    /\ ret.isNone
    /\ outcome \in {"returned", "AttributeError"}

\* the board with cell (1,1) = 5 and cell (1,2) = 5
C4_Witness ==
  /\ outcome = "returned"
  /\ ret.isNone
  /\ Len(board) = 9
  /\ board[1][1] = 5
  /\ board[1][2] = 5

\* C5: print_solved_sudoku never passes a None result of solve_sudoku to
\* cnf_to_canonical, so no board ends in a fault inside the decoder.
C5_FailureIsNotDecoded == outcome # "AttributeError"

----------------------------------------------------------------------------
(* Properties of the encoder and the decoder (SpecCodec).                  *)

\* the filled cell of the board, and its digit
TheCell == CHOOSE p \in Cells(Len(board)) : board[p[1]][p[2]] # 0
TheDigit == board[TheCell[1]][TheCell[2]]

\* g is the exactly-one group over the variables vs: one clause
\* [(a, False), (b, False)] for each unordered pair of distinct variables,
\* then the clause of all the variables as positive literals
ExactlyOneGroup(g, vs) ==
  LET m == Cardinality(vs)
      pairs == (m * (m - 1)) \div 2
  IN /\ Len(g) = pairs + 1
     /\ \A k \in 1..pairs :
          /\ Len(g[k]) = 2
          /\ g[k][1][2] = FALSE /\ g[k][2][2] = FALSE
          /\ g[k][1][1] # g[k][2][1]
          /\ {g[k][1][1], g[k][2][1]} \subseteq vs
     /\ {{g[k][1][1], g[k][2][1]} : k \in 1..pairs} = {e \in SUBSET vs : Cardinality(e) = 2}
     /\ Len(g[pairs + 1]) = m
     /\ {g[pairs + 1][j] : j \in 1..m} = {<<v, TRUE>> : v \in vs}

\* C6: each exactly-one group of the 9x9 encoder (a digit in a row, in a
\* column, in a box, and a cell of sudoku_constraints) is 36 two-literal
\* clauses, one per unordered pair of its 9 variables, followed by the
\* clause of its 9 variables as positive literals: 37 clauses.
C6_GroupsAreExactlyOne ==
  outcome = "done" =>
    LET r == TheCell[1]
        c == TheCell[2]
        d == TheDigit
        br == 3 * ((r - 1) \div 3)
        bc == 3 * ((c - 1) \div 3)
    IN /\ \A k \in 1..4 : Len(groups[k]) = 37 /\ Len(groups[k][37]) = 9
       /\ ExactlyOneGroup(groups[1], {r * 100 + col * 10 + d : col \in 1..9})
       /\ ExactlyOneGroup(groups[2], {row * 100 + c * 10 + d : row \in 1..9})
       /\ ExactlyOneGroup(groups[3],
            {(br + i) * 100 + (bc + j) * 10 + d : i \in 1..3, j \in 1..3})
       /\ ExactlyOneGroup(groups[4], {r * 100 + c * 10 + dig : dig \in 1..9})

\* the groups of digit 5 at the centre cell
C6_Witness ==
  /\ outcome = "done"
  /\ TheCell = <<5, 5>>
  /\ TheDigit = 5
  /\ groups[3][37][1] = <<445, TRUE>>
  /\ groups[4][1] = << <<551, FALSE>>, <<552, FALSE>> >>

\* C7: for r, c, d in 1..9 the literal of the board holding d at (r, c)
\* alone is (r*100 + c*10 + d, True), no other triple gives that variable,
\* and decoding {v: True} gives that board back: d at (r, c), 0 elsewhere.
C7_VariableRoundTrip ==
  LET r == TheCell[1]
      c == TheCell[2]
      d == TheDigit
  IN /\ outcome # "encode" =>
          /\ literals = << <<r * 100 + c * 10 + d, TRUE>> >>
          /\ \A r2, c2, d2 \in 1..9 :
               cell_literal(r2 - 1, c2 - 1, d2) = literals[1] => <<r2, c2, d2>> = <<r, c, d>>
     /\ outcome \in {"groups", "done"} =>
          /\ decoded = board
          /\ decoded[r][c] = d
          /\ \A p \in Cells(9) : p # <<r, c>> => decoded[p[1]][p[2]] = 0

\* digit 4 at row 2, column 7 went through variable 274 and back
C7_Witness ==
  /\ outcome = "groups"
  /\ literals = << <<274, TRUE>> >>
  /\ decoded[2][7] = 4

====
